---- MODULE Spec2Model ----
(***************************************************************************)
(* The bootstrap scripts of the OpenHPS examples: the server examples      *)
(* (1, 3, 4, 6, 8, 12) and the client examples (2, 5, 9) that talk to      *)
(* them.  A behaviour is one server process together with the client       *)
(* processes connected to it.  Promises of the positioning framework       *)
(* (build(), the CSV streams, push) settle in steps of their own; each     *)
(* callback the scripts register is one action.                            *)
(***************************************************************************)
EXTENDS Integers, Sequences, FiniteSets, TLC

\* Number of client processes connected to the server.
MaxClients == 2
\* Number of frames the timers of all clients push together; the timers are
\* not followed further.
MaxFrames == 3

Clients == 1..MaxClients

Examples == {"1-server", "3-server", "4-server", "6-server", "8-server", "12-server"}

\* setInterval(..., 5000) of 2-client and setTimeout(..., 500) of 9-client.
Interval == 5000
Timeout == 500

VARIABLES
    example,      \* the server example that runs
    server,       \* App.server: "unset", or "listening" after listen(3000)
    model,        \* App.model: "unset" or "built"
    pc,           \* position of App.initialize (the constructor for 1-server)
    build,        \* the promise of ModelBuilder...build() on the server
    step,         \* the promise of every init step
    loaders,      \* 12-server: Promise.all of the three CSV loaders
    readUnset,    \* this.model was dereferenced while still unset
    console,      \* console.log of the server process
    listeners,    \* frame uids with an onceCompleted listener registered
    notified,     \* frame uids whose onceCompleted listener has fired
    missed,       \* frame uids completed while no listener was registered
    calibration,  \* frames pushed to node "calibration", not yet stored
    service,      \* the in-memory data service of beacons: a set of objects
    count,        \* result of service.count() in initBeacons, -1 before
    ib,           \* statements of the initBeacons executor already run
    inbox,        \* per socket endpoint: frames sent by clients, not yet received
    received,     \* per socket endpoint: frames the source node has received
    sinkLog,      \* frames handed to the CallbackSinkNode callbacks, in order
    emitted,      \* emissions of the SocketServerSink: frame and listening clients
    ckind,        \* per client: which client example it runs
    cbuild,       \* per client: the promise of its build()
    cstate,       \* per client: position of the script
    elapsed,      \* per client: milliseconds since its timer was armed
    pushed,       \* per client: number of frames pushed
    lastGap,      \* per client: milliseconds the timer ran before the last push
    cconsole,     \* per client: console.log / console.error of the client
    cinbox,       \* per client: frames emitted to it, not yet handled
    creceived     \* per client: frames handled by its CallbackSinkNode

srvInit == <<example, server, model, pc, build, step, loaders, readUnset, console>>
srvCalib == <<listeners, notified, missed, calibration, service, count, ib>>
srvFrames == <<inbox, received, sinkLog, emitted>>
cliVars == <<ckind, cbuild, cstate, elapsed, pushed, lastGap, cconsole>>
cliRecv == <<cinbox, creceived>>
vars == <<srvInit, srvCalib, srvFrames, cliVars, cliRecv>>

----------------------------------------------------------------------------
\* App.initialize of every server example

Steps == {"initServer", "initModel", "initBeacons", "loadFingerprints", "loadDataset"}

\* 8-server: the model is built on the server created before; its beacons
\* arrive through the endpoint for storing data.
Program8 == <<"initServer", "initModel">>

\* The statements of initialize(), in order.
Program(e) ==
    CASE e = "1-server"  -> <<"initServer", "initModel">>
      [] e = "3-server"  -> <<"initServer", "initModel", "initBeacons">>
      [] e = "4-server"  -> <<"initServer", "initModel", "initBeacons">>
      [] e = "8-server"  -> Program8
      [] e = "6-server"  -> <<"initServer", "initModel", "initBeacons", "loadFingerprints">>
      [] e = "12-server" -> <<"initServer", "initModel", "loadDataset">>

\* Examples whose initBeacons pushes one calibration frame through the model.
FrameCalibrated == {"3-server", "4-server"}

Call(s) == [op |-> "call", step |-> s]
Await(s) == [op |-> "await", step |-> s]
Done == [op |-> "end", step |-> "done"]
Failed == [op |-> "end", step |-> "failed"]

IndexOf(e, s) == CHOOSE i \in 1..Len(Program(e)) : Program(e)[i] = s

\* The statement after step s.
After(e, s) ==
    IF IndexOf(e, s) = Len(Program(e)) THEN Done
    ELSE Call(Program(e)[IndexOf(e, s) + 1])

\* A call without await: the caller goes on while the promise is pending.
NotAwaited(s) == step[s] # "idle"

\* `await this.<step>()`: the caller resumes once the promise has resolved.
Awaited(s) == step[s] = "resolved"

Say(text) == [text |-> text, n |-> -1]
SayCount(n) == [text |-> "There are ${count} beacons stored in the data service!", n |-> n]

\* this.server = http.createServer().listen(3000)
InitServer ==
    /\ pc = Call("initServer")
    /\ server' = "listening"
    /\ step' = [step EXCEPT !["initServer"] = "resolved"]
    /\ pc' = After(example, "initServer")
    /\ UNCHANGED <<example, model, build, loaders, readUnset, console>>
    /\ UNCHANGED <<srvCalib, srvFrames, cliVars, cliRecv>>

\* initModel(): the builder chain is evaluated and build() is called.  The
\* constructor of 1-server does not await the returned promise.
InitModel ==
    /\ pc = Call("initModel")
    /\ build' = "pending"
    /\ step' = [step EXCEPT !["initModel"] = "running"]
    /\ pc' = IF example = "1-server" THEN Done ELSE Await("initModel")
    /\ UNCHANGED <<example, server, model, loaders, readUnset, console>>
    /\ UNCHANGED <<srvCalib, srvFrames, cliVars, cliRecv>>

\* The framework settles the promise of build().
BuildSettle ==
    /\ build = "pending"
    /\ \E outcome \in {"resolved", "rejected"} : build' = outcome
    /\ UNCHANGED <<example, server, model, pc, step, loaders, readUnset, console>>
    /\ UNCHANGED <<srvCalib, srvFrames, cliVars, cliRecv>>

\* The message is logged without waiting for the promise of build().
ModelReadyBeforeAwait ==
    /\ build \in {"pending", "resolved", "rejected"}
    /\ step["initModel"] = "running"
    /\ console' = Append(console, Say("Model is ready!"))
    /\ model' = IF example = "1-server" THEN model ELSE "built"
    /\ step' = [step EXCEPT !["initModel"] = "resolved"]
    /\ UNCHANGED <<example, server, pc, build, loaders, readUnset>>
    /\ UNCHANGED <<srvCalib, srvFrames, cliVars, cliRecv>>

\* build().then(model => {...}) of the servers with a model field; the
\* continuation after `await ...build()` in 1-server.
ModelReady ==
    /\ build = "resolved"
    /\ step["initModel"] = "running"
    /\ console' = Append(console, Say("Model is ready!"))
    /\ model' = IF example = "1-server" THEN model ELSE "built"
    /\ step' = [step EXCEPT !["initModel"] = "resolved"]
    /\ UNCHANGED <<example, server, pc, build, loaders, readUnset>>
    /\ UNCHANGED <<srvCalib, srvFrames, cliVars, cliRecv>>

\* .catch(reject); in 1-server the await throws and initModel rejects.
ModelFailed ==
    /\ build = "rejected"
    /\ step["initModel"] = "running"
    /\ step' = [step EXCEPT !["initModel"] = "rejected"]
    /\ UNCHANGED <<example, server, model, pc, build, loaders, readUnset, console>>
    /\ UNCHANGED <<srvCalib, srvFrames, cliVars, cliRecv>>

\* initialize() resumes after an await, or rejects with the step's error.
AwaitContinue ==
    /\ pc.op = "await"
    /\ \/ /\ Awaited(pc.step)
          /\ pc' = After(example, pc.step)
       \/ /\ step[pc.step] = "rejected"
          /\ pc' = Failed
    /\ UNCHANGED <<example, server, model, build, step, loaders, readUnset, console>>
    /\ UNCHANGED <<srvCalib, srvFrames, cliVars, cliRecv>>

----------------------------------------------------------------------------
\* initBeacons of 3-server and 4-server: one calibration frame

Beacon(uid, x, y, z) ==
    [uid |-> uid, x |-> x, y |-> y, z |-> z, environmentFactor |-> 0, calibratedRSSI |-> 0]

\* The third beacon is added under the uid of the second.
BeaconsDuplicate(e) ==
    { Beacon("5DC48FBFB912", 0, 5, 3),
      Beacon("3E182D702D4C", 10, 3, 3),
      Beacon("3E182D702D4C", 15, 2, 3),
      Beacon("75A50BDC6C42", 9, 1, 3) }

\* The objects added to the calibration frame.  A field the code does not
\* assign is 0; environmentFactor is in tenths.
Beacons(e) ==
    { IF e = "3-server" THEN Beacon("5DC48FBFB912", 0, 5, 3)
      ELSE [Beacon("5DC48FBFB912", 0, 5, 3) EXCEPT !.environmentFactor = 20,
                                                   !.calibratedRSSI = -69],
      Beacon("3E182D702D4C", 10, 3, 3),
      Beacon("027615A1D1B6", 15, 2, 3),
      Beacon("75A50BDC6C42", 9, 1, 3) }

\* const dataFrame = new DataFrame(); the uid is generated
CalibrationUid == "dataFrame"

CalibrationFrame(e) == [uid |-> CalibrationUid, objects |-> Beacons(e)]

\* The executor pushes the frame first and registers the listener afterwards.
PushThenListen == <<"push", "onceCompleted">>

\* The statements of the executor of initBeacons, in order.
InitBeaconsOrder == <<"onceCompleted", "push">>

Position(stmt) == CHOOSE i \in 1..Len(InitBeaconsOrder) : InitBeaconsOrder[i] = stmt

\* A memory data service keeps one object per uid.
Insert(svc, objects) ==
    {o \in svc : o.uid \notin {p.uid : p \in objects}} \cup objects

\* this.model.<...> in an executor: a TypeError while this.model is unset,
\* which rejects the promise of the step.
ModelUnsetThrows(s) ==
    /\ readUnset' = TRUE
    /\ step' = [step EXCEPT ![s] = "rejected"]
    /\ pc' = Await(s)
    /\ UNCHANGED <<example, server, model, build, loaders, console>>
    /\ UNCHANGED <<srvCalib, srvFrames, cliVars, cliRecv>>

\* this.model.onceCompleted(dataFrame.uid).then(...)
RegisterCompleted ==
    /\ pc = Call("initBeacons")
    /\ example \in FrameCalibrated
    /\ ib = Position("onceCompleted") - 1
    /\ IF model = "unset" THEN ModelUnsetThrows("initBeacons") ELSE
          /\ listeners' = listeners \cup {CalibrationUid}
          /\ ib' = ib + 1
          /\ step' = [step EXCEPT !["initBeacons"] = "running"]
          /\ pc' = IF ib + 1 = Len(InitBeaconsOrder) THEN Await("initBeacons") ELSE pc
          /\ UNCHANGED <<example, server, model, build, loaders, readUnset, console>>
          /\ UNCHANGED <<notified, missed, calibration, service, count>>
          /\ UNCHANGED <<srvFrames, cliVars, cliRecv>>

\* this.model.findNodeByUID("calibration").push(dataFrame)
PushCalibration ==
    /\ pc = Call("initBeacons")
    /\ example \in FrameCalibrated
    /\ ib = Position("push") - 1
    /\ IF model = "unset" THEN ModelUnsetThrows("initBeacons") ELSE
          /\ calibration' = Append(calibration, CalibrationFrame(example))
          /\ ib' = ib + 1
          /\ step' = [step EXCEPT !["initBeacons"] = "running"]
          /\ pc' = IF ib + 1 = Len(InitBeaconsOrder) THEN Await("initBeacons") ELSE pc
          /\ UNCHANGED <<example, server, model, build, loaders, readUnset, console>>
          /\ UNCHANGED <<listeners, notified, missed, service, count>>
          /\ UNCHANGED <<srvFrames, cliVars, cliRecv>>

\* The store sink of the "calibration" shape stores the objects of the frame;
\* the model then emits the completion of the frame to the listeners
\* registered for its uid at that moment.
StoreCalibration ==
    /\ calibration # <<>>
    /\ LET frame == Head(calibration) IN
        /\ service' = Insert(service, frame.objects)
        /\ calibration' = Tail(calibration)
        /\ IF frame.uid \in listeners
           THEN /\ notified' = notified \cup {frame.uid}
                /\ listeners' = listeners \ {frame.uid}
                /\ UNCHANGED missed
           ELSE /\ missed' = missed \cup {frame.uid}
                /\ UNCHANGED <<listeners, notified>>
    /\ UNCHANGED <<count, ib>>
    /\ UNCHANGED <<srvInit, srvFrames, cliVars, cliRecv>>

\* .then(() => this.model.findDataService(RFTransmitterObject).count())
CountBeacons ==
    /\ CalibrationUid \in notified
    /\ step["initBeacons"] = "running"
    /\ count = -1
    /\ count' = Cardinality(service)
    /\ UNCHANGED <<listeners, notified, missed, calibration, service, ib>>
    /\ UNCHANGED <<srvInit, srvFrames, cliVars, cliRecv>>

\* .then(count => { console.log(...); resolve(); })
ReportCount ==
    /\ count # -1
    /\ step["initBeacons"] = "running"
    /\ console' = Append(console, SayCount(count))
    /\ step' = [step EXCEPT !["initBeacons"] = "resolved"]
    /\ UNCHANGED <<example, server, model, pc, build, loaders, readUnset>>
    /\ UNCHANGED <<srvCalib, srvFrames, cliVars, cliRecv>>

----------------------------------------------------------------------------
\* initBeacons and loadFingerprints of 6-server: a CSV stream each

CsvSteps == {"initBeacons", "loadFingerprints"}

\* Rows data/ble_devices.csv may hold: the two beacons the clients refer to.
CsvBeacons == {Beacon("5DC48FBFB912", 0, 5, 3), Beacon("3E182D702D4C", 10, 3, 3)}

\* The executor: this.model.findDataService(...), then the stream is opened.
OpenCsv ==
    /\ example = "6-server"
    /\ pc.op = "call"
    /\ pc.step \in CsvSteps
    /\ IF model = "unset" THEN ModelUnsetThrows(pc.step) ELSE
          /\ step' = [step EXCEPT ![pc.step] = "running"]
          /\ pc' = Await(pc.step)
          /\ UNCHANGED <<example, server, model, build, loaders, readUnset, console>>
          /\ UNCHANGED <<srvCalib, srvFrames, cliVars, cliRecv>>

\* .on('close'): the rows read are inserted; an error of the stream or of an
\* insert rejects the step.  The rows of data/ble_devices.csv are drawn from
\* CsvBeacons; each gets environmentFactor 2.0 and calibratedRSSI -69.
CloseCsv ==
    /\ example = "6-server"
    /\ \E s \in CsvSteps :
        /\ step[s] = "running"
        /\ \/ /\ step' = [step EXCEPT ![s] = "rejected"]
              /\ UNCHANGED <<service, console>>
           \/ /\ step' = [step EXCEPT ![s] = "resolved"]
              /\ IF s = "initBeacons"
                 THEN /\ \E rows \in SUBSET CsvBeacons :
                            service' = Insert(service,
                                { [b EXCEPT !.environmentFactor = 20, !.calibratedRSSI = -69]
                                    : b \in rows })
                      /\ UNCHANGED console
                 ELSE /\ console' = Append(console, Say("Loaded ${count} fingerprints!"))
                      /\ UNCHANGED service
    /\ UNCHANGED <<example, server, model, pc, build, loaders, readUnset>>
    /\ UNCHANGED <<listeners, notified, missed, calibration, count, ib>>
    /\ UNCHANGED <<srvFrames, cliVars, cliRecv>>

----------------------------------------------------------------------------
\* loadDataset of 12-server

\* The executor: Promise.all of the three loaders is created.
LoadDataset ==
    /\ example = "12-server"
    /\ pc = Call("loadDataset")
    /\ loaders' = "reading"
    /\ step' = [step EXCEPT !["loadDataset"] = "running"]
    /\ pc' = Await("loadDataset")
    /\ UNCHANGED <<example, server, model, build, readUnset, console>>
    /\ UNCHANGED <<srvCalib, srvFrames, cliVars, cliRecv>>

\* The streams end ('end') or one fails ('error').
LoadersSettle ==
    /\ loaders = "reading"
    /\ \E outcome \in {"resolved", "rejected"} : loaders' = outcome
    /\ UNCHANGED <<example, server, model, pc, build, step, readUnset, console>>
    /\ UNCHANGED <<srvCalib, srvFrames, cliVars, cliRecv>>

\* .then(results => ...): every frame is pushed to this.model's node
\* "internal".  A throw here rejects a promise nobody handles: loadDataset
\* has no reject path and stays pending.
PushDataset ==
    /\ loaders = "resolved"
    /\ step["loadDataset"] = "running"
    /\ IF model = "unset"
       THEN /\ readUnset' = TRUE
            /\ loaders' = "thrown"
       ELSE /\ loaders' = "pushed"
            /\ UNCHANGED readUnset
    /\ UNCHANGED <<example, server, model, pc, build, step, console>>
    /\ UNCHANGED <<srvCalib, srvFrames, cliVars, cliRecv>>

\* .then(async () => {...}): the services are updated, the sizes logged.
ResolveDataset ==
    /\ loaders = "pushed"
    /\ step["loadDataset"] = "running"
    /\ console' = console \o <<Say("WLAN Fingerprints: ${n}"), Say("BLE Fingerprints: ${n}"),
                               Say("Beacons: ${n}")>>
    /\ step' = [step EXCEPT !["loadDataset"] = "resolved"]
    /\ UNCHANGED <<example, server, model, pc, build, loaders, readUnset>>
    /\ UNCHANGED <<srvCalib, srvFrames, cliVars, cliRecv>>


----------------------------------------------------------------------------
\* The client examples: 2-client, 5-client, 9-client

ClientKinds == {"2-client", "5-client", "9-client"}

\* uid of the SocketClientSink a client pushes to.
SinkUid(k) == IF k = "2-client" THEN "test" ELSE "online"

\* uid of the SocketClientSource of 9-client; the other clients have none.
ListenUid(k) == IF k = "9-client" THEN "output" ELSE "none"

\* Socket endpoints clients push to, and the examples that declare them.
ClientEndpoints == {"test", "online"}

Endpoints(e) ==
    CASE e = "1-server"  -> {"test"}
      [] e = "3-server"  -> {"test"}
      [] e = "4-server"  -> {"online"}
      [] e = "6-server"  -> {"online"}
      [] e = "8-server"  -> {"online"}
      [] e = "12-server" -> {"online"}

\* A uid is a sequence of characters.
Mvdewync == <<"m", "v", "d", "e", "w", "y", "n", "c">>

EndsWith(s, suffix) ==
    /\ Len(s) >= Len(suffix)
    /\ SubSeq(s, Len(s) - Len(suffix) + 1, Len(s)) = suffix

\* The n-th frame client c pushes: its source object is "mvdewync"; 2-client
\* sets a fixed 2d position, 5-client and 9-client add two relative RSSIs.
ClientFrame(c, k, n) ==
    [ uid      |-> <<c, n>>,
      source   |-> Mvdewync,
      position |-> IF k = "2-client" THEN <<1, 2>> ELSE <<>>,
      relative |-> IF k = "2-client" THEN {}
                   ELSE { [ref |-> "5DC48FBFB912", rssi |-> -50],
                          [ref |-> "3E182D702D4C", rssi |-> -50] },
      trail    |-> <<>> ]

Period(k) == IF k = "2-client" THEN Interval ELSE Timeout

RECURSIVE Sum(_, _)
Sum(f, S) == IF S = {} THEN 0 ELSE LET x == CHOOSE y \in S : TRUE IN f[x] + Sum(f, S \ {x})

\* Frames pushed by all clients together.
TotalPushed == Sum(pushed, Clients)

Send(ep, frame) == inbox' = [inbox EXCEPT ![ep] = Append(@, frame)]

\* initialize() has run to its end, or waits for a promise that stays pending.
Initialized ==
    \/ pc.op = "end"
    \/ loaders \in {"rejected", "thrown"}

\* The client is run once the server has said that its model is ready and
\* has loaded its data: the script logs its first line and calls build().
ClientStart(c) ==
    /\ cstate[c] = "off"
    /\ \E i \in DOMAIN console : console[i].text = "Model is ready!"
    /\ Initialized
    /\ cstate' = [cstate EXCEPT ![c] = "building"]
    /\ cbuild' = [cbuild EXCEPT ![c] = "pending"]
    /\ cconsole' = [cconsole EXCEPT ![c] = Append(@, "Creating the positioning model ...")]
    /\ UNCHANGED <<ckind, elapsed, pushed, lastGap>>
    /\ UNCHANGED <<srvInit, srvCalib, srvFrames, cliRecv>>

\* The framework settles the promise of the client's build().
ClientBuildSettle(c) ==
    /\ cbuild[c] = "pending"
    /\ \E outcome \in {"resolved", "rejected"} : cbuild' = [cbuild EXCEPT ![c] = outcome]
    /\ UNCHANGED <<ckind, cstate, elapsed, pushed, lastGap, cconsole>>
    /\ UNCHANGED <<srvInit, srvCalib, srvFrames, cliRecv>>

\* build().then((model) => {...}): 2-client arms the interval, 9-client the
\* timeout, 5-client pushes its frame at once.
ClientReady(c) ==
    /\ cbuild[c] = "resolved"
    /\ cstate[c] = "building"
    /\ cconsole' = [cconsole EXCEPT ![c] = Append(@, "Client positioning model created ...")]
    /\ elapsed' = [elapsed EXCEPT ![c] = 0]
    /\ IF ckind[c] = "5-client"
       THEN /\ Send("online", ClientFrame(c, ckind[c], pushed[c] + 1))
            /\ pushed' = [pushed EXCEPT ![c] = @ + 1]
            /\ cstate' = [cstate EXCEPT ![c] = "done"]
       ELSE /\ cstate' = [cstate EXCEPT ![c] = IF ckind[c] = "2-client" THEN "interval"
                                                ELSE "timeout"]
            /\ UNCHANGED <<inbox, pushed>>
    /\ UNCHANGED <<ckind, cbuild, lastGap>>
    /\ UNCHANGED <<received, sinkLog, emitted>>
    /\ UNCHANGED <<srvInit, srvCalib, cliRecv>>

\* .catch(console.error)
ClientFailed(c) ==
    /\ cbuild[c] = "rejected"
    /\ cstate[c] = "building"
    /\ cconsole' = [cconsole EXCEPT ![c] = Append(@, "error")]
    /\ cstate' = [cstate EXCEPT ![c] = "failed"]
    /\ UNCHANGED <<ckind, cbuild, elapsed, pushed, lastGap>>
    /\ UNCHANGED <<srvInit, srvCalib, srvFrames, cliRecv>>

\* Time passes for an armed timer, up to the moment it is due.
Tick(c) ==
    /\ cstate[c] \in {"interval", "timeout"}
    /\ elapsed[c] < Period(ckind[c])
    /\ elapsed' = [elapsed EXCEPT ![c] = Period(ckind[c])]
    /\ UNCHANGED <<ckind, cbuild, cstate, pushed, lastGap, cconsole>>
    /\ UNCHANGED <<srvInit, srvCalib, srvFrames, cliRecv>>

\* The timer of 2-client is a timeout as well: it fires once.
TimerFireOnce(c) ==
    /\ cstate[c] \in {"interval", "timeout"}
    /\ elapsed[c] = Period(ckind[c])
    /\ TotalPushed < MaxFrames
    /\ cconsole' = [cconsole EXCEPT ![c] = Append(@, "Sending data frame ...")]
    /\ Send(SinkUid(ckind[c]), ClientFrame(c, ckind[c], pushed[c] + 1))
    /\ pushed' = [pushed EXCEPT ![c] = @ + 1]
    /\ lastGap' = [lastGap EXCEPT ![c] = elapsed[c]]
    /\ elapsed' = [elapsed EXCEPT ![c] = 0]
    /\ cstate' = [cstate EXCEPT ![c] = "done"]
    /\ UNCHANGED <<ckind, cbuild>>
    /\ UNCHANGED <<received, sinkLog, emitted>>
    /\ UNCHANGED <<srvInit, srvCalib, cliRecv>>

\* The callback of setInterval (2-client) or setTimeout (9-client): a new
\* frame is pushed.  An interval is armed again, a timeout is not.
TimerFire(c) ==
    /\ cstate[c] \in {"interval", "timeout"}
    /\ elapsed[c] = Period(ckind[c])
    /\ TotalPushed < MaxFrames
    /\ cconsole' = [cconsole EXCEPT ![c] = Append(@, "Sending data frame ...")]
    /\ Send(SinkUid(ckind[c]), ClientFrame(c, ckind[c], pushed[c] + 1))
    /\ pushed' = [pushed EXCEPT ![c] = @ + 1]
    /\ lastGap' = [lastGap EXCEPT ![c] = elapsed[c]]
    /\ elapsed' = [elapsed EXCEPT ![c] = 0]
    /\ cstate' = [cstate EXCEPT ![c] = IF @ = "interval" THEN "interval" ELSE "done"]
    /\ UNCHANGED <<ckind, cbuild>>
    /\ UNCHANGED <<received, sinkLog, emitted>>
    /\ UNCHANGED <<srvInit, srvCalib, cliRecv>>

\* The CallbackSinkNode behind the SocketClientSource "output" of 9-client.
ClientReceive(c) ==
    /\ cinbox[c] # <<>>
    /\ creceived' = [creceived EXCEPT ![c] = Append(@, Head(cinbox[c]))]
    /\ cinbox' = [cinbox EXCEPT ![c] = Tail(@)]
    /\ cconsole' = [cconsole EXCEPT ![c] = Append(@, "Response from server")]
    /\ UNCHANGED <<ckind, cbuild, cstate, elapsed, pushed, lastGap>>
    /\ UNCHANGED <<srvInit, srvCalib, srvFrames>>

----------------------------------------------------------------------------
\* The graph shapes of the servers

NoFilter == <<>>
EndsBle == <<"_", "b", "l", "e">>
EndsWlan == <<"_", "w", "l", "a", "n">>

Node(name, frameFilter) == [name |-> name, frameFilter |-> frameFilter]

Shape(name, via, sink, uid) == [name |-> name, via |-> via, sink |-> sink, uid |-> uid]

\* 8-server: the multilateration of 4-server, with the calculated position
\* sent back through a socket sink; 9-client listens on its uid "output".
Shapes8 ==
    << Shape("online", << Node("RelativeRSSIProcessing", NoFilter),
                          Node("MultilaterationNode", NoFilter) >>, "socket", "output") >>

\* The shapes of example e that start at socket source ep.
Shapes(e, ep) ==
    CASE e \in {"1-server", "3-server"} ->
            << Shape("test", <<>>, "callback", "") >>
      [] e = "4-server" ->
            << Shape("online", << Node("RelativeRSSIProcessing", NoFilter),
                                  Node("MultilaterationNode", NoFilter) >>, "callback", "") >>
      [] e = "6-server" ->
            << Shape("multilateration",
                     << Node("RelativeRSSIProcessing", EndsBle),
                        Node("MultilaterationNode", NoFilter) >>, "callback", ""),
               Shape("fingerprinting",
                     << Node("KNNFingerprintingNode", EndsWlan) >>, "callback", "") >>
      [] e = "8-server" -> Shapes8
      [] e = "12-server" ->
            << Shape("online", <<>>, "socket", "feedback") >>

\* The four sub-graphs of the "online" shape of 12-server; each ends in a
\* filter that lets a frame pass only if a fresh position was computed.
Branches12 ==
    << << Node("ble-fingerprinting", NoFilter), Node("AccuracyModifierNode", NoFilter) >>,
       << Node("wlan-fingerprinting", NoFilter), Node("AccuracyModifierNode", NoFilter) >>,
       << Node("RelativeRSSIProcessing", NoFilter), Node("CellIdentificationNode", NoFilter) >>,
       << Node("RelativeRSSIProcessing", NoFilter), Node("ble-multilateration", NoFilter),
          Node("AccuracyModifierNode", NoFilter) >> >>

\* frameFilter: the frames the node processes; without one, every frame.
Accepts(node, frame) ==
    \/ node.frameFilter = NoFilter
    \/ EndsWith(frame.source, node.frameFilter)

\* A processing node processes the frames its filter accepts and hands every
\* frame on to the next node.
Process(node, frame) ==
    IF Accepts(node, frame) THEN [frame EXCEPT !.trail = Append(@, node.name)] ELSE frame

RECURSIVE RunVia(_, _)
RunVia(nodes, frame) ==
    IF nodes = <<>> THEN frame
    ELSE RunVia(Tail(nodes), Process(Head(nodes), frame))

\* FrameMergeNode of 12-server: the frames that come out of the branches in
\* `passing` are merged into one frame of the source object.
Merge12(passing, frame) == [frame EXCEPT !.trail = Append(@, "FrameMergeNode")]

\* What reaches the sinks for a frame received at ep: one entry per shape.
Results(e, ep, frame, passing) ==
    IF e = "12-server"
    THEN IF passing = {} THEN <<>>
         ELSE << [Shapes(e, ep)[1] EXCEPT !.via = Merge12(passing, frame)] >>
    ELSE [i \in 1..Len(Shapes(e, ep)) |->
            [Shapes(e, ep)[i] EXCEPT !.via = RunVia(Shapes(e, ep)[i].via, frame)]]

IsCallback(r) == r.sink = "callback"
IsSocket(r) == r.sink = "socket"

\* A 9-client listens on uid once its model is built.
Listens(c, uid) ==
    /\ cbuild[c] = "resolved"
    /\ ListenUid(ckind[c]) = uid

\* The sink sends a frame only to the client whose frame it was computed from.
OriginOnly(uid, frame) == {c \in Clients : Listens(c, uid) /\ c = frame.uid[1]}

\* The SocketServerSink broadcasts: every client listening on its uid.
Recipients(uid, frame) == {c \in Clients : Listens(c, uid)}

\* The callback logs every frame twice.
LoggedTwice(r) == << [sink |-> r.name, frame |-> r.via], [sink |-> r.name, frame |-> r.via] >>

\* CallbackSinkNode(frame => console.log(...)): one line per frame.
Logged(r) == << [sink |-> r.name, frame |-> r.via] >>

RECURSIVE LogAll(_)
LogAll(rs) == IF rs = <<>> THEN <<>> ELSE Logged(Head(rs)) \o LogAll(Tail(rs))

\* A SocketServerSource receives the next frame of its endpoint and pushes it
\* through the shapes that start there, down to their sinks.
Receive(ep) ==
    /\ ep \in Endpoints(example)
    /\ step["initModel"] = "resolved"
    /\ inbox[ep] # <<>>
    /\ LET frame == Head(inbox[ep]) IN
       \E passing \in (IF example = "12-server" THEN SUBSET DOMAIN Branches12 ELSE {{}}) :
          LET results == Results(example, ep, frame, passing)
              sockets == SelectSeq(results, IsSocket)
          IN  /\ inbox' = [inbox EXCEPT ![ep] = Tail(@)]
              /\ received' = [received EXCEPT ![ep] = Append(@, frame)]
              /\ sinkLog' = sinkLog \o LogAll(SelectSeq(results, IsCallback))
              /\ IF sockets = <<>>
                 THEN UNCHANGED <<emitted, cinbox>>
                 ELSE LET out == sockets[1] IN
                      /\ emitted' = Append(emitted,
                            [frame |-> out.via, uid |-> out.uid,
                             listening |-> {c \in Clients : Listens(c, out.uid)}])
                      /\ cinbox' = [c \in Clients |->
                            IF c \in Recipients(out.uid, out.via)
                            THEN Append(cinbox[c], out.via) ELSE cinbox[c]]
    /\ UNCHANGED creceived
    /\ UNCHANGED <<srvInit, srvCalib, cliVars>>

----------------------------------------------------------------------------

KindsFor(e) == {k \in ClientKinds : SinkUid(k) \in Endpoints(e)}

Init ==
    /\ example \in Examples
    /\ server = "unset"
    /\ model = "unset"
    /\ pc = Call("initServer")
    /\ build = "idle"
    /\ step = [s \in Steps |-> "idle"]
    /\ loaders = "idle"
    /\ readUnset = FALSE
    /\ console = <<>>
    /\ listeners = {}
    /\ notified = {}
    /\ missed = {}
    /\ calibration = <<>>
    /\ service = {}
    /\ count = -1
    /\ ib = 0
    /\ inbox = [ep \in ClientEndpoints |-> <<>>]
    /\ received = [ep \in ClientEndpoints |-> <<>>]
    /\ sinkLog = <<>>
    /\ emitted = <<>>
    /\ ckind \in [Clients -> KindsFor(example)]
    /\ cbuild = [c \in Clients |-> "idle"]
    /\ cstate = [c \in Clients |-> "off"]
    /\ elapsed = [c \in Clients |-> 0]
    /\ pushed = [c \in Clients |-> 0]
    /\ lastGap = [c \in Clients |-> -1]
    /\ cconsole = [c \in Clients |-> <<>>]
    /\ cinbox = [c \in Clients |-> <<>>]
    /\ creceived = [c \in Clients |-> <<>>]

Next ==
    \/ InitServer
    \/ InitModel
    \/ BuildSettle
    \/ ModelReady
    \/ ModelFailed
    \/ AwaitContinue
    \/ RegisterCompleted
    \/ PushCalibration
    \/ StoreCalibration
    \/ CountBeacons
    \/ ReportCount
    \/ OpenCsv
    \/ CloseCsv
    \/ LoadDataset
    \/ LoadersSettle
    \/ PushDataset
    \/ ResolveDataset
    \/ \E c \in Clients : ClientStart(c)
    \/ \E c \in Clients : ClientBuildSettle(c)
    \/ \E c \in Clients : ClientReady(c)
    \/ \E c \in Clients : ClientFailed(c)
    \/ \E c \in Clients : Tick(c)
    \/ \E c \in Clients : TimerFire(c)
    \/ \E c \in Clients : ClientReceive(c)
    \/ \E ep \in ClientEndpoints : Receive(ep)

Spec == Init /\ [][Next]_vars

\* The event loop runs every callback that is due, and time passes.
Fairness ==
    /\ WF_vars(ModelReady)
    /\ WF_vars(ModelFailed)
    /\ \A c \in Clients :
        /\ WF_vars(ClientReady(c))
        /\ WF_vars(ClientFailed(c))
        /\ WF_vars(Tick(c))
        /\ WF_vars(TimerFire(c))

\* 1-server with 2-clients, as its README has them run.
Init1 == Init /\ example = "1-server"

Next1 ==
    \/ InitServer
    \/ InitModel
    \/ BuildSettle
    \/ ModelReady
    \/ ModelFailed
    \/ \E c \in Clients : ClientStart(c)
    \/ \E c \in Clients : ClientBuildSettle(c)
    \/ \E c \in Clients : ClientReady(c)
    \/ \E c \in Clients : ClientFailed(c)
    \/ \E c \in Clients : Tick(c)
    \/ \E c \in Clients : TimerFire(c)
    \/ Receive("test")

FairSpec1 == Init1 /\ [][Next1]_vars /\ Fairness

----------------------------------------------------------------------------
\* Properties

Range(seq) == {seq[i] : i \in DOMAIN seq}

InConsole(text) == \E i \in DOMAIN console : console[i].text = text

BeaconUids == {"5DC48FBFB912", "3E182D702D4C", "027615A1D1B6", "75A50BDC6C42"}

CalibrationSteps == {"initBeacons", "loadFingerprints", "loadDataset"}

C8_ListenBeforePush ==
    example \in {"3-server", "4-server"} =>
        /\ (calibration # <<>> \/ CalibrationUid \in notified \cup missed) =>
               CalibrationUid \in listeners \cup notified
        /\ missed = {}
        /\ count # -1 => (CalibrationUid \in notified /\ calibration = <<>>)
        /\ step["initBeacons"] = "resolved" => count # -1

\* C8 witness: initBeacons of 4-server has resolved after its listener fired.
C8_Witness ==
    /\ example = "4-server"
    /\ step["initBeacons"] = "resolved"
    /\ CalibrationUid \in notified

\* C9: when initBeacons of 3-server / 4-server resolves, the data service,
\* empty at the start, holds exactly the four beacons of the calibration
\* frame and the count reported is 4.
C9_FourBeacons ==
    (example \in {"3-server", "4-server"} /\ step["initBeacons"] = "resolved") =>
        /\ {o.uid : o \in service} = BeaconUids
        /\ Cardinality(service) = 4
        /\ count = 4
        /\ SayCount(4) \in Range(console)

\* C9 witness: 3-server has reported the count.
C9_Witness ==
    /\ example = "3-server"
    /\ step["initBeacons"] = "resolved"
    /\ console[Len(console)].n = 4

\* C3: in 1-server every frame received on endpoint "test" is handed to the
\* callback sink and logged exactly once, in the order received, and the
\* frame logged is the frame the client pushed: no node altered it.
C3_LoggedOnceInOrder ==
    example = "1-server" =>
        /\ Len(sinkLog) = Len(received["test"])
        /\ \A i \in DOMAIN sinkLog :
              /\ sinkLog[i].frame = received["test"][i]
              /\ sinkLog[i].frame =
                    ClientFrame(sinkLog[i].frame.uid[1], "2-client", sinkLog[i].frame.uid[2])

\* C3 witness: 1-server has logged frames of both clients, and two frames
\* of one client in the order they were pushed.
C3_Witness ==
    /\ example = "1-server"
    /\ \E i, j \in DOMAIN sinkLog : sinkLog[i].frame.uid[1] # sinkLog[j].frame.uid[1]
    /\ \E i, j \in DOMAIN sinkLog :
          /\ i < j
          /\ sinkLog[i].frame.uid[1] = sinkLog[j].frame.uid[1]
          /\ sinkLog[i].frame.uid[2] < sinkLog[j].frame.uid[2]

C7_OnlyBleProcessed ==
    example = "6-server" =>
        \A i \in DOMAIN sinkLog :
            ~EndsWith(sinkLog[i].frame.source, EndsBle) =>
                /\ "RelativeRSSIProcessing" \notin Range(sinkLog[i].frame.trail)
                /\ "MultilaterationNode" \notin Range(sinkLog[i].frame.trail)

\* C2: in 1-server "Model is ready!" is logged only after the build has
\* completed successfully, never when the build fails, and it is eventually
\* logged whenever the build completes successfully.
C2_ReadyAfterBuild ==
    /\ [](example = "1-server" =>
            /\ InConsole("Model is ready!") => build = "resolved"
            /\ build = "rejected" => ~InConsole("Model is ready!"))
    /\ (example = "1-server" /\ build = "resolved") ~> InConsole("Model is ready!")

\* C2 witness: 1-server has logged the message.
C2_Witness ==
    /\ example = "1-server"
    /\ InConsole("Model is ready!")

\* C5: 2-client pushes no frame before its build has resolved; once it has,
\* a frame is pushed every 5000 ms, again and again (after every push
\* another one follows, as long as the clients have pushed fewer than
\* MaxFrames together); if the build fails no frame is ever pushed and the
\* error is logged.
C5_PushEveryInterval ==
    \A c \in Clients :
        /\ [](ckind[c] = "2-client" =>
                /\ pushed[c] > 0 => cbuild[c] = "resolved"
                /\ cbuild[c] = "rejected" => pushed[c] = 0
                /\ lastGap[c] \in {-1, Interval}
                /\ cstate[c] = "failed" => "error" \in Range(cconsole[c]))
        /\ \A n \in 0..(MaxFrames - 1) :
              (ckind[c] = "2-client" /\ cbuild[c] = "resolved" /\ pushed[c] = n)
                  ~> (pushed[c] = n + 1 \/ TotalPushed = MaxFrames)
        /\ (ckind[c] = "2-client" /\ cbuild[c] = "rejected")
              ~> ("error" \in Range(cconsole[c]))

\* C5 witness: a 2-client has pushed frame after frame, each 5000 ms after
\* the timer was armed.
C5_Witness ==
    \E c \in Clients :
        /\ ckind[c] = "2-client"
        /\ pushed[c] = MaxFrames
        /\ lastGap[c] = Interval

====
